---- MODULE Spec2Model ----
(***************************************************************************)
(* Model of the extension_endpoint gateway (src/extension_endpoint/views.py)*)
(*                                                                         *)
(* Spec     : one HTTP request at a time through the decorators and views, *)
(*            every outbound call answering in any of its possible ways.   *)
(* SpecSeq  : check_rate_limit called for two subjects, one call after the *)
(*            other, while time passes.                                    *)
(* SpecRL   : check_rate_limit called by concurrent workers for the same   *)
(*            subject; the read of the counter (cache.get) and its write   *)
(*            (cache.set) are two separate steps, as in the source.        *)
(* SpecLive : Spec with requests from one origin and weak fairness of the   *)
(*            handling steps, for the termination of every request.        *)
(***************************************************************************)
EXTENDS Integers, Sequences, FiniteSets, TLC

(***************************************************************************)
(* Program constants (views.py:44-46)                                      *)
(***************************************************************************)
RATE_LIMIT_REQUESTS_DEFAULT == 5
RATE_LIMIT_REQUESTS_AMBIENT == 10
RATE_LIMIT_WINDOW == 86400

(***************************************************************************)
(* Bounds of the model                                                     *)
(***************************************************************************)
\* the clock advances in steps of TimeStep seconds, MaxTicks times at most
TimeStep == 43200
MaxTicks == 2
\* calls of check_rate_limit made for a subject after its quota is used up
ExtraCalls == 2

Workers == {"w1", "w2"}
Subjects == {"u1", "u2"}

VARIABLES
    cache,          \* django.core.cache: key -> entry with value and expiry
    now,            \* wall clock, seconds
    pc,             \* per worker: position inside check_rate_limit
    args,           \* per worker: arguments (user_id, is_ambient_user)
    current_count,  \* per worker: local current_count (views.py:137)
    result,         \* the tuple (allowed, remaining, limit) of the latest return
    hist,           \* per subject: history of the calls (observation only)
    api_key,        \* settings.DEFAULT_API_KEY
    req,            \* the HTTP request being handled
    gpc,            \* position of that request in the decorators and the view
    loc,            \* local variables of the handlers
    resp,           \* the response built so far
    net             \* outbound calls made for the request, with their answers

gwvars == <<api_key, req, gpc, loc, resp, net>>
vars == <<cache, now, pc, args, current_count, result, hist,
          api_key, req, gpc, loc, resp, net>>

(***************************************************************************)
(* The cache (django.core.cache semantics of get / set with timeout)       *)
(***************************************************************************)
NoEntry == [present |-> FALSE, value |-> 0, expires |-> 0]

\* cache_key = f"ratelimit:extension:{user_id}"
CacheKeyShared(user_id) == <<"ratelimit:extension", "u1">>
CacheKey(user_id) == <<"ratelimit:extension", user_id>>

CacheKeys == {CacheKey(u) : u \in Subjects}

\* an entry is live until its expiry time is reached
Live(c, key, t) == c[key].present /\ t < c[key].expires

\* cache.get(key, default)
CacheGet(c, key, default, t) == IF Live(c, key, t) THEN c[key].value ELSE default

\* cache.set(key, value, timeout=...) : stores the value, expiry = now + timeout
CacheSet(c, key, value, timeout, t) ==
    [c EXCEPT ![key] = [present |-> TRUE, value |-> value, expires |-> t + timeout]]

(***************************************************************************)
(* check_rate_limit (views.py:121-147)                                     *)
(***************************************************************************)
\* check_ambient_profile: whether an account with the subject's email exists
HasProfile(user_id) == user_id = "u2"

\* limit = RATE_LIMIT_REQUESTS_AMBIENT if is_ambient_user else ..._DEFAULT
Limit(is_ambient_user) ==
    IF is_ambient_user THEN RATE_LIMIT_REQUESTS_AMBIENT ELSE RATE_LIMIT_REQUESTS_DEFAULT

\* if current_count >= limit
OverLimitOffByOne(cur, limit) == cur > limit
OverLimitElevated(cur, limit) == cur >= RATE_LIMIT_REQUESTS_AMBIENT
OverLimit(cur, limit) == cur >= limit

NoArgs == [user_id |-> "none", is_ambient_user |-> FALSE]
NoResult == [user_id |-> "none", allowed |-> FALSE, remaining |-> -1, limit |-> 0]

\* the tuple returned to the caller of worker w
Return(w, allowed, remaining, limit) ==
    [user_id |-> args[w].user_id,
     allowed |-> allowed, remaining |-> remaining, limit |-> limit]

\* history of a subject's current window: the time of the call that found the
\* counter absent, the calls that read the counter since, those admitted
NoHist == [start |-> 0, calls |-> 0, admitted |-> 0]

Writers(u) == {w \in Workers : pc[w] = "write" /\ args[w].user_id = u}

HistAfterRead(h, u, w, wasLive, t) ==
    IF wasLive \/ (Writers(u) \ {w}) # {}
    THEN [h EXCEPT !.calls = @ + 1]
    ELSE [start |-> t, calls |-> 1, admitted |-> 0]

RLInit ==
    /\ cache = [k \in CacheKeys |-> NoEntry]
    /\ now = 0
    /\ pc = [w \in Workers |-> "idle"]
    /\ args = [w \in Workers |-> NoArgs]
    /\ current_count = [w \in Workers |-> 0]
    /\ result = NoResult
    /\ hist = [u \in Subjects |-> NoHist]

\* Python's None where a string is expected
None == "None"

NoReq == [endpoint |-> None, method |-> None, origin |-> None,
          auth |-> [scheme |-> None, token_len |-> 0],
          body |-> [json |-> FALSE, valid |-> FALSE, calendar_events |-> 0]]
NoEmail == [local |-> <<>>, domain |-> ""]
NoUserinfo == [ok |-> FALSE, sub |-> None, email |-> NoEmail]
NoGemini == [raised |-> FALSE, value |-> <<>>]
NoLoc == [origin |-> None, userinfo |-> NoUserinfo, is_ambient_user |-> FALSE,
          remaining |-> 0, limit |-> 0, attempt |-> 0, slept |-> <<>>,
          gemini |-> NoGemini]
NoResp == [status |-> 0, body |-> [raw |-> ""], headers |-> {}]

\* no request has been received yet; the API key is configured or not
GwInit ==
    /\ api_key \in {None, "", "key"}
    /\ req = NoReq
    /\ gpc = "idle"
    /\ loc = NoLoc
    /\ resp = NoResp
    /\ net = <<>>

Init == RLInit /\ GwInit

\* a worker enters check_rate_limit(user_id, is_ambient_user)
RLCall(w, u, amb) ==
    /\ pc[w] = "idle"
    /\ pc' = [pc EXCEPT ![w] = "read"]
    /\ args' = [args EXCEPT ![w] = [user_id |-> u, is_ambient_user |-> amb]]
    /\ UNCHANGED <<cache, now, current_count, result, hist>>

\* views.py:132-141, the counter is at or over the limit: return False, 0, limit
RLRejectTouch(w) ==
    LET u == args[w].user_id
        key == CacheKey(u)
        limit == Limit(args[w].is_ambient_user)
        cur == CacheGet(cache, key, 0, now)
    IN  /\ pc[w] = "read"
        /\ OverLimit(cur, limit)
        /\ result' = Return(w, FALSE, 0, limit)
        /\ pc' = [pc EXCEPT ![w] = "idle"]
        /\ args' = [args EXCEPT ![w] = NoArgs]
        /\ hist' = [hist EXCEPT ![u] = HistAfterRead(@, u, w, Live(cache, key, now), now)]
        /\ cache' = CacheSet(cache, key, cur, RATE_LIMIT_WINDOW, now)
        /\ UNCHANGED <<now, current_count>>
        /\ UNCHANGED gwvars
RLReject(w) ==
    LET u == args[w].user_id
        key == CacheKey(u)
        limit == Limit(args[w].is_ambient_user)
        cur == CacheGet(cache, key, 0, now)
    IN  /\ pc[w] = "read"
        /\ OverLimit(cur, limit)
        /\ result' = Return(w, FALSE, 0, limit)
        /\ pc' = [pc EXCEPT ![w] = "idle"]
        /\ args' = [args EXCEPT ![w] = NoArgs]
        /\ hist' = [hist EXCEPT ![u] = HistAfterRead(@, u, w, Live(cache, key, now), now)]
        /\ UNCHANGED <<cache, now, current_count>>
        /\ UNCHANGED gwvars

\* views.py:132-140, the counter is under the limit: go on to the increment
RLRead(w) ==
    LET u == args[w].user_id
        key == CacheKey(u)
        limit == Limit(args[w].is_ambient_user)
        cur == CacheGet(cache, key, 0, now)
    IN  /\ pc[w] = "read"
        /\ ~OverLimit(cur, limit)
        /\ current_count' = [current_count EXCEPT ![w] = cur]
        /\ pc' = [pc EXCEPT ![w] = "write"]
        /\ hist' = [hist EXCEPT ![u] = HistAfterRead(@, u, w, Live(cache, key, now), now)]
        /\ UNCHANGED <<cache, now, args, result>>
        /\ UNCHANGED gwvars

\* views.py:143-147: new_count = current_count + 1; cache.set(...); return
RLWriteNoIncrement(w) ==
    LET u == args[w].user_id
        key == CacheKey(u)
        limit == Limit(args[w].is_ambient_user)
        remaining == limit - current_count[w]
        new_count == current_count[w]
    IN  /\ pc[w] = "write"
        /\ cache' = CacheSet(cache, key, new_count, RATE_LIMIT_WINDOW, now)
        /\ result' = Return(w, TRUE, remaining - 1, limit)
        /\ pc' = [pc EXCEPT ![w] = "idle"]
        /\ args' = [args EXCEPT ![w] = NoArgs]
        /\ current_count' = [current_count EXCEPT ![w] = 0]
        /\ hist' = [hist EXCEPT ![u].admitted = @ + 1]
        /\ UNCHANGED now
        /\ UNCHANGED gwvars
RLWrite(w) ==
    LET u == args[w].user_id
        key == CacheKey(u)
        limit == Limit(args[w].is_ambient_user)
        remaining == limit - current_count[w]
        new_count == current_count[w] + 1
    IN  /\ pc[w] = "write"
        /\ cache' = CacheSet(cache, key, new_count, RATE_LIMIT_WINDOW, now)
        /\ result' = Return(w, TRUE, remaining - 1, limit)
        /\ pc' = [pc EXCEPT ![w] = "idle"]
        /\ args' = [args EXCEPT ![w] = NoArgs]
        /\ current_count' = [current_count EXCEPT ![w] = 0]
        /\ hist' = [hist EXCEPT ![u].admitted = @ + 1]
        /\ UNCHANGED now
        /\ UNCHANGED gwvars

\* time passes between calls (a call lasts far less than TimeStep)
Tick ==
    /\ \A w \in Workers : pc[w] = "idle"
    /\ now + TimeStep <= MaxTicks * TimeStep
    /\ now' = now + TimeStep
    /\ UNCHANGED <<cache, pc, args, current_count, result, hist>>
    /\ UNCHANGED gwvars

\* concurrent requests of one subject
RaceSubjects == {"u1"}

\* the subjects whose tokens reach the HTTP endpoints
GwSubjects == {"u2"}

\* a call of a worker, whatever the other workers are doing
RaceCall(w, u, amb) ==
    /\ hist[u].calls < Limit(amb) + ExtraCalls
    /\ RLCall(w, u, amb)
    /\ UNCHANGED gwvars

RLNext ==
    \/ \E w \in Workers, u \in RaceSubjects : RaceCall(w, u, HasProfile(u))
    \/ \E w \in Workers : RLReject(w)
    \/ \E w \in Workers : RLRead(w)
    \/ \E w \in Workers : RLWrite(w)
    \/ Tick

SpecRL == Init /\ [][RLNext]_vars

\* calls issued one after another: a call starts when none is running
SeqCall(w, u, amb) ==
    /\ \A v \in Workers : pc[v] = "idle"
    /\ hist[u].calls < Limit(amb) + ExtraCalls
    /\ RLCall(w, u, amb)
    /\ UNCHANGED gwvars

SeqNext ==
    \/ \E w \in Workers, u \in Subjects : SeqCall(w, u, HasProfile(u))
    \/ \E w \in Workers : RLReject(w)
    \/ \E w \in Workers : RLRead(w)
    \/ \E w \in Workers : RLWrite(w)
    \/ Tick

SpecSeq == Init /\ [][SeqNext]_vars

(***************************************************************************)
(* The HTTP surface (views.py:32-41, 238-281, 332-671)                     *)
(***************************************************************************)
ALLOWED_ORIGINS == <<"chrome-extension://lmmjfddkgnehcnhelddgmlmookgemeop",
                     "https://messages.google.com",
                     "https://www.messenger.com",
                     "https://web.whatsapp.com">>

GOOGLE_CLIENT_ID == "636710672879-jtimq18mggv3ev79itq5uq0f1tpdmf5d.apps.googleusercontent.com"

\* len(token) < 20
MinTokenLen == 20

\* max_retries: int = 3
max_retries == 3

\* the worker that serves the request
GwWorker == "w1"

Endpoints == {"extract_event", "find_matches", "health_check", "check_profile"}
BusinessEndpoints == {"extract_event", "find_matches"}
Methods == {"GET", "POST", "OPTIONS"}

\* Origin headers: two of the allowed origins, no header (''), a subdomain
\* and a scheme variant of an allowed origin
Origins == {"chrome-extension://lmmjfddkgnehcnhelddgmlmookgemeop",
            "https://web.whatsapp.com",
            "",
            "https://evil.web.whatsapp.com",
            "http://web.whatsapp.com"}

\* Authorization headers: none, another scheme, 'Bearer ' followed by a token
\* of 0, 19, 20 characters
AuthHeaders == {[scheme |-> None, token_len |-> 0],
                [scheme |-> "Basic", token_len |-> 40],
                [scheme |-> "Bearer", token_len |-> 0],
                [scheme |-> "Bearer", token_len |-> MinTokenLen - 1],
                [scheme |-> "Bearer", token_len |-> MinTokenLen]}

\* bodies: not JSON, JSON that fails validation, valid with no and with one
\* calendar event
Bodies == {[json |-> FALSE, valid |-> FALSE, calendar_events |-> 0],
           [json |-> TRUE, valid |-> FALSE, calendar_events |-> 0],
           [json |-> TRUE, valid |-> TRUE, calendar_events |-> 0],
           [json |-> TRUE, valid |-> TRUE, calendar_events |-> 1]}

\* the requests received: health_check reads neither the Authorization header
\* nor the body, check_profile does not read the body
Requests ==
    {r \in [endpoint : Endpoints, method : Methods, origin : Origins,
            auth : AuthHeaders, body : Bodies] :
        /\ r.endpoint \notin BusinessEndpoints => r.body = NoReq.body
        /\ r.endpoint = "health_check" => r.auth = NoReq.auth}

\* the e-mail address Google reports for a subject
EmailOf(u) == IF u = "u1" THEN [local |-> <<"a", "b">>, domain |-> "x.com"]
              ELSE [local |-> <<"a", "b", "c", "d", "e", "f">>, domain |-> "x.com"]

\* other 'email' values of the userinfo answer: local parts of 0, 1, 2, 3 and
\* 4 characters, and a value without '@' (domain None)
OtherEmails ==
    {[local |-> <<>>, domain |-> "x.com"],
     [local |-> <<"a">>, domain |-> "x.com"],
     [local |-> <<"a", "b">>, domain |-> "x.com"],
     [local |-> <<"a", "b", "c">>, domain |-> "x.com"],
     [local |-> <<"a", "b", "c", "d">>, domain |-> "x.com"],
     [local |-> <<"a", "b", "c", "d">>, domain |-> None]}

\* answers of https://www.googleapis.com/oauth2/v3/userinfo
UserinfoOutcomes ==
    {[kind |-> k, sub |-> None, email |-> NoEmail] :
        k \in {"non200", "no_sub", "timeout", "error"}}
    \cup UNION {{[kind |-> "ok", sub |-> u, email |-> e] :
                    e \in {NoEmail, EmailOf(u)} \cup OtherEmails} :
                  u \in GwSubjects}

\* answers of https://oauth2.googleapis.com/tokeninfo
TokeninfoOutcomes ==
    {[kind |-> k, aud |-> None] : k \in {"non200", "timeout", "error"}}
    \cup {[kind |-> "ok", aud |-> a] : a \in {GOOGLE_CLIENT_ID, "another-app", None}}

\* answers of client.models.generate_content: a text or an exception message
GeminiOutcomes ==
    {[raises |-> FALSE, msg |-> <<"[{\"summary\": \"x\"}]">>],
     [raises |-> FALSE, msg |-> <<"not json">>],
     [raises |-> FALSE, msg |-> <<>>],
     [raises |-> FALSE, msg |-> <<"Error processing request: 500 INTERNAL.">>],
     [raises |-> FALSE, msg |-> <<"x", "503 UNAVAILABLE.">>],
     [raises |-> TRUE, msg |-> <<"503", "UNAVAILABLE">>],
     [raises |-> TRUE, msg |-> <<"500", "INTERNAL">>],
     [raises |-> TRUE, msg |-> <<"400", "INVALID_ARGUMENT">>]}

\* x in list
InList(x, list) == \E i \in 1..Len(list) : list[i] = x

\* sub in text, for a text given as the sequence of its parts
Contains(text, sub) == \E i \in 1..Len(text) : text[i] = sub

\* response[name] = value
SetHeader(response, name, value) ==
    [response EXCEPT !.headers = {h \in @ : h[1] # name} \cup {<<name, value>>}]

HasHeader(response, name) == \E h \in response.headers : h[1] = name

JsonResponse(body, status) ==
    [status |-> status, body |-> body,
     headers |-> {<<"Content-Type", "application/json">>}]

HttpResponse ==
    [status |-> 200, body |-> [raw |-> ""],
     headers |-> {<<"Content-Type", "text/html; charset=utf-8">>}]

HttpResponseNotAllowed(permitted) ==
    [status |-> 405, body |-> [raw |-> ""],
     headers |-> {<<"Content-Type", "text/html; charset=utf-8">>,
                  <<"Allow", permitted>>}]

\* get_cors_origin (views.py:238-250)
get_cors_origin(request) ==
    IF InList(request.origin, ALLOWED_ORIGINS) THEN request.origin ELSE None

\* add_cors_headers (views.py:253-260)
add_cors_headers(response, origin) ==
    IF origin # None /\ origin # ""
    THEN SetHeader(SetHeader(SetHeader(SetHeader(response,
            "Access-Control-Allow-Origin", origin),
            "Access-Control-Allow-Methods", "GET, POST, OPTIONS"),
            "Access-Control-Allow-Headers", "Content-Type, Authorization"),
            "Access-Control-Expose-Headers",
            "X-RateLimit-Remaining, X-RateLimit-Reset, X-RateLimit-Limit, X-Ambient-User")
    ELSE response

\* auth_header.startswith('Bearer ')
StartsWithBearerAnyScheme(auth) == auth.scheme # None
StartsWithBearer(auth) == auth.scheme = "Bearer"

\* not token or len(token) < 20
TokenTooShortLax(auth) == auth.token_len = 0
TokenTooShort(auth) == auth.token_len = 0 \/ auth.token_len < MinTokenLen

\* the error sent when verify_google_token returns None (views.py:193, 651)
InvalidTokenErrorByStep ==
    IF Len(net) = 2 THEN "Token was not issued for this application."
    ELSE "Invalid or expired Google token. Please reconnect your calendar."
InvalidTokenError == "Invalid or expired Google token. Please reconnect your calendar."

\* error body of require_google_auth (views.py:170-175, 180-185, 191-196)
AuthError(msg) ==
    [success |-> FALSE, error |-> <<msg>>, events |-> <<>>, match_result |-> <<>>]

\* error body of check_profile (views.py:626-631, 636-641, 647-652)
ProfileError(msg) ==
    [success |-> FALSE, is_ambient_user |-> FALSE, email |-> <<>>, error |-> <<msg>>]

\* error body of the two business views
ViewErrorNoData(endpoint, msg) == [success |-> FALSE, error |-> msg]
ViewError(endpoint, msg) ==
    IF endpoint = "extract_event"
    THEN [success |-> FALSE, events |-> <<>>, error |-> msg]
    ELSE [success |-> FALSE, match_result |-> <<>>, error |-> msg]

\* require_http_methods([...]) of each view
PermittedMethods(endpoint) ==
    IF endpoint \in BusinessEndpoints THEN {"POST", "OPTIONS"} ELSE {"GET", "OPTIONS"}

AllowHeader(endpoint) ==
    IF endpoint \in BusinessEndpoints THEN "POST, OPTIONS" ELSE "GET, OPTIONS"

\* a request arrives at its view function (outermost decorator first)
Arrive(r) ==
    /\ gpc = "idle"
    /\ \A w \in Workers : pc[w] = "idle"
    /\ \A u \in Subjects : hist[u].calls - hist[u].admitted < ExtraCalls
    /\ req' = r
    /\ gpc' = "cors_exempt"
    /\ loc' = NoLoc
    /\ resp' = NoResp
    /\ net' = <<>>
    /\ UNCHANGED <<cache, now, pc, args, current_count, result, hist, api_key>>

\* cors_exempt.wrapper before the view (views.py:266-271)
CorsExemptNoPreflight ==
    /\ gpc = "cors_exempt"
    /\ loc' = [loc EXCEPT !.origin = get_cors_origin(req)]
    /\ gpc' = IF req.endpoint \in BusinessEndpoints
              THEN "require_google_auth" ELSE "require_http_methods"
    /\ UNCHANGED <<cache, now, pc, args, current_count, result, hist, api_key, req, resp, net>>
CorsExempt ==
    /\ gpc = "cors_exempt"
    /\ LET origin == get_cors_origin(req)
       IN  IF req.method = "OPTIONS"
           THEN /\ resp' = add_cors_headers(HttpResponse, origin)
                /\ gpc' = "done"
                /\ loc' = [loc EXCEPT !.origin = origin]
           ELSE /\ loc' = [loc EXCEPT !.origin = origin]
                /\ gpc' = IF req.endpoint \in BusinessEndpoints
                          THEN "require_google_auth" ELSE "require_http_methods"
                /\ UNCHANGED resp
    /\ UNCHANGED <<cache, now, pc, args, current_count, result, hist, api_key, req, net>>

\* cors_exempt.wrapper after the view (views.py:272)
CorsReturn ==
    /\ gpc = "cors_return"
    /\ resp' = add_cors_headers(resp, loc.origin)
    /\ gpc' = "done"
    /\ UNCHANGED <<cache, now, pc, args, current_count, result, hist, api_key, req, loc, net>>

\* the response has been sent: the worker is free for the next request
Sent ==
    /\ gpc = "done"
    /\ gpc' = "idle"
    /\ req' = NoReq
    /\ loc' = NoLoc
    /\ resp' = NoResp
    /\ net' = <<>>
    /\ UNCHANGED <<cache, now, pc, args, current_count, result, hist, api_key>>

\* require_google_auth.wrapper up to the call of verify_google_token
\* (views.py:161-188)
RequireGoogleAuth ==
    /\ gpc = "require_google_auth"
    /\ IF req.method = "OPTIONS"
       THEN \* return view_func(request, *args, **kwargs)
            /\ gpc' = "require_http_methods"
            /\ UNCHANGED resp
       ELSE IF ~StartsWithBearer(req.auth)
       THEN /\ resp' = JsonResponse(AuthError("Missing or invalid Authorization header"), 401)
            /\ gpc' = "cors_return"
       ELSE IF TokenTooShort(req.auth)
       THEN /\ resp' = JsonResponse(AuthError("Invalid token format"), 401)
            /\ gpc' = "cors_return"
       ELSE /\ gpc' = "userinfo"
            /\ UNCHANGED resp
    /\ UNCHANGED <<cache, now, pc, args, current_count, result, hist, api_key, req, loc, net>>

\* verify_google_token, first call (views.py:61-75, 94-97)
VerifyUserinfo(o) ==
    /\ gpc = "userinfo"
    \* the business endpoints only test whether the e-mail is empty
    /\ req.endpoint \in BusinessEndpoints => o.email \in {NoEmail, EmailOf(o.sub)}
    /\ net' = Append(net, <<"userinfo", o.kind, o.sub>>)
    /\ IF o.kind = "ok"
       THEN /\ loc' = [loc EXCEPT !.userinfo = [ok |-> TRUE, sub |-> o.sub, email |-> o.email]]
            /\ gpc' = "tokeninfo"
       ELSE /\ loc' = [loc EXCEPT !.userinfo = NoUserinfo]
            /\ gpc' = "verified"
    /\ UNCHANGED <<cache, now, pc, args, current_count, result, hist, api_key, req, resp>>

\* verify_google_token, second call (views.py:77-97)
AudienceOkAny(o) == o.kind = "ok"
AudienceOk(o) == o.kind = "ok" /\ o.aud = GOOGLE_CLIENT_ID

VerifyTokeninfo(o) ==
    /\ gpc = "tokeninfo"
    /\ net' = Append(net, <<"tokeninfo", o.kind, o.aud>>)
    /\ IF AudienceOk(o)
       THEN UNCHANGED loc
       ELSE loc' = [loc EXCEPT !.userinfo = NoUserinfo]
    /\ gpc' = "verified"
    /\ UNCHANGED <<cache, now, pc, args, current_count, result, hist, api_key, req, resp>>

\* check_ambient_profile (views.py:100-118); found is the answer of the lookup
check_ambient_profile(email, found) ==
    IF email = NoEmail THEN FALSE ELSE found

\* answers of the lookup: the account is found, or not (missing, or an error)
LookupOutcomes(u) == IF HasProfile(u) THEN {TRUE, FALSE} ELSE {FALSE}

\* require_google_auth.wrapper after verify_google_token, up to the call of
\* check_rate_limit (views.py:190-205)
AuthVerified(found) ==
    /\ gpc = "verified"
    /\ req.endpoint \in BusinessEndpoints
    /\ IF ~loc.userinfo.ok
       THEN /\ resp' = JsonResponse(AuthError(InvalidTokenError), 401)
            /\ gpc' = "cors_return"
            /\ found = FALSE
            /\ UNCHANGED <<loc, net, pc, args>>
       ELSE LET user_id == loc.userinfo.sub
                user_email == loc.userinfo.email
                is_ambient_user == check_ambient_profile(user_email, found)
            IN  /\ found \in LookupOutcomes(user_id)
                /\ loc' = [loc EXCEPT !.is_ambient_user = is_ambient_user]
                /\ net' = IF user_email = NoEmail THEN net
                          ELSE Append(net, <<"profile", IF found THEN "found" ELSE "not_found", "">>)
                /\ RLCall(GwWorker, user_id, is_ambient_user)
                /\ gpc' = "check_rate_limit"
                /\ UNCHANGED resp
    /\ UNCHANGED <<cache, now, current_count, result, hist, api_key, req>>

\* require_google_auth.wrapper after check_rate_limit (views.py:205-226)
AuthRateLimitedLogOnly ==
    /\ gpc = "check_rate_limit"
    /\ pc[GwWorker] = "idle"
    /\ loc' = [loc EXCEPT !.remaining = result.remaining, !.limit = result.limit]
    /\ gpc' = "require_http_methods"
    /\ UNCHANGED <<cache, now, pc, args, current_count, result, hist, api_key, req, resp, net>>
AuthRateLimited ==
    /\ gpc = "check_rate_limit"
    /\ pc[GwWorker] = "idle"
    /\ IF ~result.allowed
       THEN /\ resp' =
                 SetHeader(SetHeader(SetHeader(SetHeader(
                     JsonResponse([success |-> FALSE,
                                   error |-> <<"Rate limit exceeded. Please try again later.">>,
                                   events |-> <<>>, match_result |-> <<>>,
                                   is_ambient_user |-> loc.is_ambient_user], 429),
                     "X-RateLimit-Remaining", "0"),
                     "X-RateLimit-Reset", ToString(RATE_LIMIT_WINDOW)),
                     "X-RateLimit-Limit", ToString(result.limit)),
                     "X-Ambient-User", IF loc.is_ambient_user THEN "true" ELSE "false")
            /\ gpc' = "cors_return"
            /\ UNCHANGED loc
       ELSE /\ loc' = [loc EXCEPT !.remaining = result.remaining, !.limit = result.limit]
            /\ gpc' = "require_http_methods"
            /\ UNCHANGED resp
    /\ UNCHANGED <<cache, now, pc, args, current_count, result, hist, api_key, req, net>>

\* require_http_methods (views.py:335, 445, 574, 597)
RequireHttpMethods ==
    /\ gpc = "require_http_methods"
    /\ IF req.method \notin PermittedMethods(req.endpoint)
       THEN /\ resp' = HttpResponseNotAllowed(AllowHeader(req.endpoint))
            /\ gpc' = IF req.endpoint \in BusinessEndpoints
                      THEN "rate_headers" ELSE "cors_return"
       ELSE /\ gpc' = req.endpoint
            /\ UNCHANGED resp
    /\ UNCHANGED <<cache, now, pc, args, current_count, result, hist, api_key, req, loc, net>>

\* get_api_key (views.py:276-281): raises ValueError without a key
ApiKeyMissingNoneOnly == api_key = None
ApiKeyMissing == api_key = None \/ api_key = ""

\* extract_event up to the call of call_gemini_with_retry (views.py:365-403,
\* 426-432)
ExtractEvent ==
    /\ gpc = "extract_event"
    /\ IF ~req.body.json
       THEN /\ resp' = JsonResponse(ViewError("extract_event", <<"Invalid JSON: ", "<e>">>), 400)
            /\ gpc' = "rate_headers"
       ELSE IF ~req.body.valid
       THEN /\ resp' = JsonResponse(ViewError("extract_event", <<"<validation error>">>), 400)
            /\ gpc' = "rate_headers"
       ELSE IF ApiKeyMissing
       THEN /\ resp' = JsonResponse(ViewError("extract_event",
                            <<"DEFAULT_API_KEY not configured in settings">>), 500)
            /\ gpc' = "rate_headers"
       ELSE /\ gpc' = "gemini"
            /\ UNCHANGED resp
    /\ UNCHANGED <<cache, now, pc, args, current_count, result, hist, api_key, req, loc, net>>

\* len(calendar_events) == 0 (views.py:508)
NoCalendarEventsNegative(body) == body.calendar_events < 0
NoCalendarEvents(body) == body.calendar_events = 0

\* find_matches up to the call of call_gemini_with_retry (views.py:484-537,
\* 556-562)
FindMatches ==
    /\ gpc = "find_matches"
    /\ IF ~req.body.json
       THEN /\ resp' = JsonResponse(ViewError("find_matches", <<"Invalid JSON: ", "<e>">>), 400)
            /\ gpc' = "rate_headers"
       ELSE IF ~req.body.valid
       THEN /\ resp' = JsonResponse(ViewError("find_matches", <<"<validation error>">>), 400)
            /\ gpc' = "rate_headers"
       ELSE IF NoCalendarEvents(req.body)
       THEN /\ resp' = JsonResponse(
                   [success |-> TRUE,
                    match_result |-> <<[match_type |-> "no_match",
                                        matched_event |-> None,
                                        matched_event_id |-> None]>>,
                    error |-> <<>>,
                    is_ambient_user |-> loc.is_ambient_user], 200)
            /\ gpc' = "rate_headers"
       ELSE IF ApiKeyMissing
       THEN /\ resp' = JsonResponse(ViewError("find_matches",
                            <<"DEFAULT_API_KEY not configured in settings">>), 500)
            /\ gpc' = "rate_headers"
       ELSE /\ gpc' = "gemini"
            /\ UNCHANGED resp
    /\ UNCHANGED <<cache, now, pc, args, current_count, result, hist, api_key, req, loc, net>>

\* any(code in error_msg for code in ["500", "503", "UNAVAILABLE", "INTERNAL"])
TransientErrorOnly503(error_msg) ==
    \E code \in {"503", "UNAVAILABLE"} : Contains(error_msg, code)
TransientErrorAlways(error_msg) == TRUE
TransientError(error_msg) ==
    \E code \in {"500", "503", "UNAVAILABLE", "INTERNAL"} : Contains(error_msg, code)

\* the two error strings looked for in response.text
InBandErrorOnly500(text) ==
    Contains(text, "Error processing request: 500 INTERNAL.")
InBandError(text) ==
    \/ Contains(text, "Error processing request: 500 INTERNAL.")
    \/ Contains(text, "503 UNAVAILABLE.")

\* attempt is the last value of range(max_retries); attempt == max_retries - 1
LastAttemptNever(attempt) == FALSE
LastAttempt(attempt) == attempt = max_retries - 1

\* call_gemini_with_retry, one pass of the loop (views.py:301-329)
GeminiAttempt(o) ==
    /\ gpc = "gemini"
    /\ net' = Append(net, <<"gemini", IF o.raises THEN "raised" ELSE "returned", o.msg>>)
    /\ LET attempt == loc.attempt
           last == LastAttempt(attempt)
       IN  IF ~o.raises
           THEN IF o.msg # <<>> /\ InBandError(o.msg)
                THEN \* time.sleep(attempt + 1); continue
                     IF last
                     THEN /\ loc' = [loc EXCEPT !.slept = Append(@, attempt + 1),
                                                !.gemini = [raised |-> TRUE, value |->
                                                   <<"Gemini API error: max retries exceeded">>]]
                          /\ gpc' = "gemini_returned"
                     ELSE /\ loc' = [loc EXCEPT !.slept = Append(@, attempt + 1),
                                                !.attempt = attempt + 1]
                          /\ gpc' = "gemini"
                ELSE /\ loc' = [loc EXCEPT !.gemini = [raised |-> FALSE, value |-> o.msg]]
                     /\ gpc' = "gemini_returned"
           ELSE IF TransientError(o.msg)
                THEN IF last
                     THEN /\ loc' = [loc EXCEPT !.slept = Append(@, attempt + 1),
                                                !.gemini = [raised |-> TRUE, value |->
                                                   <<"Gemini API error after ", ToString(max_retries),
                                                     " attempts: ">> \o o.msg]]
                          /\ gpc' = "gemini_returned"
                     ELSE /\ loc' = [loc EXCEPT !.slept = Append(@, attempt + 1),
                                                !.attempt = attempt + 1]
                          /\ gpc' = "gemini"
                ELSE /\ loc' = [loc EXCEPT !.gemini = [raised |-> TRUE, value |-> o.msg]]
                     /\ gpc' = "gemini_returned"
    /\ UNCHANGED <<cache, now, pc, args, current_count, result, hist, api_key, req, resp>>

\* sanitize_and_parse_json succeeds on the text
ParsesAsJson(text) == text = <<"[{\"summary\": \"x\"}]">>

\* the business views after call_gemini_with_retry (views.py:405-439, 539-569)
ViewAfterGemini ==
    /\ gpc = "gemini_returned"
    /\ resp' =
         IF loc.gemini.raised
         THEN JsonResponse(ViewError(req.endpoint, <<"Internal error: ">> \o loc.gemini.value), 500)
         ELSE IF ~ParsesAsJson(loc.gemini.value)
         THEN JsonResponse(ViewError(req.endpoint, <<"Failed to parse AI response: ", "<e>">>), 500)
         ELSE IF req.endpoint = "extract_event"
         THEN JsonResponse([success |-> TRUE, events |-> <<"parsed">>, error |-> <<>>,
                            is_ambient_user |-> loc.is_ambient_user], 200)
         ELSE JsonResponse([success |-> TRUE, match_result |-> <<"parsed">>, error |-> <<>>,
                            is_ambient_user |-> loc.is_ambient_user], 200)
    /\ gpc' = "rate_headers"
    /\ UNCHANGED <<cache, now, pc, args, current_count, result, hist, api_key, req, loc, net>>

\* require_google_auth.wrapper after the view (views.py:226-233); for OPTIONS
\* the wrapper has returned the view's response as it is (views.py:163-164)
RateHeadersOnSuccess ==
    /\ gpc = "rate_headers"
    /\ resp' = IF req.method = "OPTIONS" \/ resp.status # 200 THEN resp
               ELSE SetHeader(SetHeader(SetHeader(resp,
                  "X-RateLimit-Remaining", ToString(loc.remaining)),
                  "X-RateLimit-Limit", ToString(loc.limit)),
                  "X-Ambient-User", IF loc.is_ambient_user THEN "true" ELSE "false")
    /\ gpc' = "cors_return"
    /\ UNCHANGED <<cache, now, pc, args, current_count, result, hist, api_key, req, loc, net>>
RateHeaders ==
    /\ gpc = "rate_headers"
    /\ resp' = IF req.method = "OPTIONS" THEN resp
               ELSE SetHeader(SetHeader(SetHeader(resp,
                  "X-RateLimit-Remaining", ToString(loc.remaining)),
                  "X-RateLimit-Limit", ToString(loc.limit)),
                  "X-Ambient-User", IF loc.is_ambient_user THEN "true" ELSE "false")
    /\ gpc' = "cors_return"
    /\ UNCHANGED <<cache, now, pc, args, current_count, result, hist, api_key, req, loc, net>>

\* health_check (views.py:587-592)
HealthCheck ==
    /\ gpc = "health_check"
    /\ resp' = JsonResponse([status |-> "ok", api_configured |-> ~ApiKeyMissing], 200)
    /\ gpc' = "cors_return"
    /\ UNCHANGED <<cache, now, pc, args, current_count, result, hist, api_key, req, loc, net>>

\* check_profile up to the call of verify_google_token (views.py:618-644)
CheckProfile ==
    /\ gpc = "check_profile"
    /\ IF req.method = "OPTIONS"
       THEN /\ resp' = HttpResponse
            /\ gpc' = "cors_return"
       ELSE IF ~StartsWithBearer(req.auth)
       THEN /\ resp' = JsonResponse(ProfileError("Missing or invalid Authorization header"), 401)
            /\ gpc' = "cors_return"
       ELSE IF TokenTooShort(req.auth)
       THEN /\ resp' = JsonResponse(ProfileError("Invalid token format"), 401)
            /\ gpc' = "cors_return"
       ELSE /\ gpc' = "userinfo"
            /\ UNCHANGED resp
    /\ UNCHANGED <<cache, now, pc, args, current_count, result, hist, api_key, req, loc, net>>

\* user_email and '@' in user_email
HasAt(user_email) == user_email # NoEmail /\ user_email.domain # None

\* local_part[0] raises IndexError when the local part is empty (views.py:659)
MaskRaises(user_email) == HasAt(user_email) /\ Len(user_email.local) = 0

\* the masked e-mail of check_profile (views.py:656-661)
MaskEmail(user_email) ==
    IF HasAt(user_email)
    THEN LET local_part == user_email.local
             domain == user_email.domain
         IN  IF Len(local_part) > 3
             THEN SubSeq(local_part, 1, 3) \o <<"***@", domain>>
             ELSE <<local_part[1]>> \o <<"***@", domain>>
    ELSE <<"***">>

\* the response Django sends when a view raises an exception it does not
\* handle; the exception passes through cors_exempt.wrapper (views.py:271)
ServerError ==
    [status |-> 500, body |-> [raw |-> "Server Error (500)"],
     headers |-> {<<"Content-Type", "text/html; charset=utf-8">>}]

\* check_profile after verify_google_token (views.py:646-671)
CheckProfileVerifiedRateLimited(found) ==
    /\ gpc = "verified"
    /\ req.endpoint = "check_profile"
    /\ IF ~loc.userinfo.ok
       THEN /\ resp' = JsonResponse(ProfileError(InvalidTokenError), 401)
            /\ found = FALSE
            /\ UNCHANGED <<loc, net, pc, args>>
       ELSE LET user_email == loc.userinfo.email
                is_ambient_user == check_ambient_profile(user_email, found)
            IN  /\ found \in LookupOutcomes(loc.userinfo.sub)
                /\ ~MaskRaises(user_email)
                /\ loc' = [loc EXCEPT !.is_ambient_user = is_ambient_user]
                /\ net' = IF user_email = NoEmail THEN net
                          ELSE Append(net, <<"profile", IF found THEN "found" ELSE "not_found", "">>)
                /\ RLCall(GwWorker, loc.userinfo.sub, is_ambient_user)
                /\ resp' = JsonResponse([success |-> TRUE,
                                         is_ambient_user |-> is_ambient_user,
                                         email |-> <<MaskEmail(user_email)>>,
                                         error |-> <<>>], 200)
    /\ gpc' = "cors_return"
    /\ UNCHANGED <<cache, now, current_count, result, hist, api_key, req>>
CheckProfileVerified(found) ==
    /\ gpc = "verified"
    /\ req.endpoint = "check_profile"
    /\ IF ~loc.userinfo.ok
       THEN /\ resp' = JsonResponse(ProfileError(InvalidTokenError), 401)
            /\ gpc' = "cors_return"
            /\ found = FALSE
            /\ UNCHANGED <<loc, net>>
       ELSE IF MaskRaises(loc.userinfo.email)
       THEN \* IndexError, handled neither by the view nor by its decorators
            /\ resp' = ServerError
            /\ gpc' = "done"
            /\ found = FALSE
            /\ UNCHANGED <<loc, net>>
       ELSE LET user_email == loc.userinfo.email
                is_ambient_user == check_ambient_profile(user_email, found)
            IN  /\ found \in LookupOutcomes(loc.userinfo.sub)
                /\ loc' = [loc EXCEPT !.is_ambient_user = is_ambient_user]
                /\ net' = IF user_email = NoEmail THEN net
                          ELSE Append(net, <<"profile", IF found THEN "found" ELSE "not_found", "">>)
                /\ resp' = JsonResponse([success |-> TRUE,
                                         is_ambient_user |-> is_ambient_user,
                                         email |-> <<MaskEmail(user_email)>>,
                                         error |-> <<>>], 200)
                /\ gpc' = "cors_return"
    /\ UNCHANGED <<cache, now, pc, args, current_count, result, hist, api_key, req>>

\* a step of the handling of the request received
Handle ==
    \/ CorsExempt
    \/ RequireGoogleAuth
    \/ \E o \in UserinfoOutcomes : VerifyUserinfo(o)
    \/ \E o \in TokeninfoOutcomes : VerifyTokeninfo(o)
    \/ \E found \in BOOLEAN : AuthVerified(found)
    \/ RLReject(GwWorker)
    \/ RLRead(GwWorker)
    \/ RLWrite(GwWorker)
    \/ AuthRateLimited
    \/ RequireHttpMethods
    \/ ExtractEvent
    \/ FindMatches
    \/ \E o \in GeminiOutcomes : GeminiAttempt(o)
    \/ ViewAfterGemini
    \/ RateHeaders
    \/ HealthCheck
    \/ CheckProfile
    \/ \E found \in BOOLEAN : CheckProfileVerified(found)
    \/ CorsReturn
    \/ Sent

Next ==
    \/ gpc = "idle" /\ \E r \in Requests : Arrive(r)
    \/ Handle

Spec == Init /\ [][Next]_vars

\* requests from one origin, without or with a well-formed bearer token
LiveRequests ==
    {r \in Requests :
        /\ r.origin = "https://web.whatsapp.com"
        /\ r.auth \in {[scheme |-> None, token_len |-> 0],
                       [scheme |-> "Bearer", token_len |-> MinTokenLen]}}

LiveNext ==
    \/ gpc = "idle" /\ \E r \in LiveRequests : Arrive(r)
    \/ Handle

\* a request received is handled to its end: the worker keeps running, and
\* every outbound call returns, raises or times out (requests.get has
\* timeout=5)
SpecLive == Init /\ [][LiveNext]_vars /\ WF_vars(Handle)

(***************************************************************************)
(* Properties of the rate limiter                                          *)
(***************************************************************************)
\* the quota the specification gives a subject: 5 by default, 10 with a profile
Quota(u) == IF HasProfile(u) THEN 10 ELSE 5

Entry(u) == cache[CacheKey(u)]
Count(c, u, t) == CacheGet(c, CacheKey(u), 0, t)

\* the latest return is the one of the latest call that read u's counter
LatestCallOf(u) == result.user_id = u /\ Writers(u) = {}

\* C1: with calls issued one after another and a fixed tier, the Nth call of a
\* subject since its counter was absent is admitted iff N <= limit(tier); when
\* admitted it returns remaining = limit - N; call limit+1 and every later call
\* of the window is rejected with remaining = 0.
C1_NthCallAdmittedIffWithinLimit ==
    \A u \in Subjects :
        LatestCallOf(u) =>
            LET N == hist[u].calls
            IN  /\ result.limit = Quota(u)
                /\ result.allowed <=> (N <= Quota(u))
                /\ result.allowed => result.remaining = Quota(u) - N
                /\ ~result.allowed => result.remaining = 0

C1_Witness ==
    /\ LatestCallOf("u2") /\ hist["u2"].calls = 11 /\ ~result.allowed
    /\ hist["u1"].calls = 5 /\ hist["u1"].admitted = 5

\* C2: whatever the interleaving of the concurrent requests of a subject, the
\* requests admitted within one window are never more than limit(tier) + 1.
C2_AdmittedAtMostLimitPlusOne ==
    \A u \in Subjects :
        now < hist[u].start + RATE_LIMIT_WINDOW => hist[u].admitted <= Quota(u) + 1

\* C3: the expiry of a record is the time of the request that created it plus
\* 86400 s; no later request of the window changes it.
C3_ExpiryFixedAtCreation ==
    \A u \in Subjects :
        Live(cache, CacheKey(u), now) =>
            Entry(u).expires = hist[u].start + RATE_LIMIT_WINDOW

\* C4: the stored count of a subject never decreases from one step to the
\* next while its record is live; it returns to 0 only by expiry.
C4_CountNeverDecreases ==
    [][\A u \in Subjects :
          Live(cache', CacheKey(u), now') => Count(cache', u, now') >= Count(cache, u, now)]_vars

\* C5: a call that finds count >= limit returns (False, 0, limit) and leaves
\* the store as it was, count and expiry of every record included.
C5_RejectLeavesStoreUnchanged ==
    [][\A w \in Workers :
          (/\ pc[w] = "read" /\ pc'[w] # "read"
           /\ Count(cache, args[w].user_id, now) >= Quota(args[w].user_id))
          => /\ result' = [user_id |-> args[w].user_id, allowed |-> FALSE,
                           remaining |-> 0, limit |-> Quota(args[w].user_id)]
             /\ cache' = cache]_vars

\* a rejection made after the record was written at an earlier time
C5_Witness ==
    /\ result.user_id = "u1" /\ ~result.allowed
    /\ Live(cache, CacheKey("u1"), now)
    /\ Entry("u1").expires < now + RATE_LIMIT_WINDOW

\* C6: a step of a request of subject A leaves the record (count and expiry)
\* of every other subject B unchanged, and a request is admitted on the count
\* of its own subject, whatever the other subjects have used.
C6_SubjectsIndependent ==
    [][\A w \in Workers :
          pc'[w] # pc[w] =>
            LET a == IF pc[w] = "idle" THEN args'[w].user_id ELSE args[w].user_id
            IN  \A b \in Subjects \ {a} :
                  /\ Entry(b)' = Entry(b)
                  /\ pc[w] = "read" =>
                        (pc'[w] = "write" <=> Count(cache, a, now) < Quota(a))]_vars

\* B admitted while A's quota is used up
C6_Witness ==
    /\ result.user_id = "u1" /\ result.allowed
    /\ Count(cache, "u2", now) = 10 /\ Count(cache, "u1", now) = 1

(***************************************************************************)
(* Properties of the HTTP surface                                          *)
(***************************************************************************)
\* the outbound call named name was made for the request
Called(name) == \E i \in 1..Len(net) : net[i][1] = name

\* the request carries 'Bearer ' and a token of fewer than 20 characters
ShortBearer == req.auth.scheme = "Bearer" /\ req.auth.token_len < 20

AuthEndpoints == {"extract_event", "find_matches", "check_profile"}

\* the request reaches the token check of its endpoint
ReachesTokenCheck ==
    \/ req.endpoint \in {"extract_event", "find_matches"} /\ req.method # "OPTIONS"
    \/ req.endpoint = "check_profile" /\ req.method = "GET"

\* C7 as stated: every request to an authenticated endpoint whose bearer
\* token is shorter than 20 characters is rejected as unauthorized, and no
\* call to the identity-info or the token-introspection endpoint is made.
C7_ShortTokenUnauthorized ==
    (req.endpoint \in AuthEndpoints /\ ShortBearer) =>
        /\ ~Called("userinfo") /\ ~Called("tokeninfo")
        /\ gpc = "done" => resp.status = 401

\* C7 amended: with a bearer token shorter than 20 characters no call to the
\* identity-info or token-introspection endpoint is made, whatever the
\* method; the request is answered 401 when it reaches the token check, that
\* is unless it is an OPTIONS preflight (200) or a request to check_profile
\* with a method other than GET (405).
C7_ShortTokenNoOutboundCall ==
    (req.endpoint \in AuthEndpoints /\ ShortBearer) =>
        /\ ~Called("userinfo") /\ ~Called("tokeninfo")
        /\ gpc = "done" =>
             resp.status = IF ReachesTokenCheck THEN 401
                           ELSE IF req.method = "OPTIONS" THEN 200 ELSE 405

C7_Witness ==
    /\ gpc = "done" /\ req.endpoint = "check_profile" /\ req.method = "GET"
    /\ req.auth = [scheme |-> "Bearer", token_len |-> 19]
    /\ resp.status = 401 /\ net = <<>>

\* C8: verify_google_token returns an identity only if the identity-info
\* call answered 200 with a subject and the token-introspection call answered
\* 200 with the audience of this application; it returns failure otherwise,
\* and the introspection call is made only after the identity-info step
\* succeeded.
C8_VerifyOnlyOnBothCalls ==
    /\ \A i \in 1..Len(net) :
          net[i][1] = "tokeninfo" =>
              i = 2 /\ net[1][1] = "userinfo" /\ net[1][2] = "ok"
    /\ gpc = "verified" =>
          /\ Len(net) >= 1 /\ net[1][1] = "userinfo"
          /\ loc.userinfo.ok <=>
                /\ Len(net) = 2
                /\ net[1][2] = "ok"
                /\ net[2] = <<"tokeninfo", "ok",
                      "636710672879-jtimq18mggv3ev79itq5uq0f1tpdmf5d.apps.googleusercontent.com">>
          /\ loc.userinfo.ok => loc.userinfo.sub = net[1][3]

C8_Witness ==
    /\ gpc = "verified" /\ loc.userinfo.ok /\ loc.userinfo.sub = "u2"
    /\ Len(net) = 2

\* verify_google_token was called for the request and returned None
VerifyFailed == Called("userinfo") /\ ~loc.userinfo.ok /\ gpc \notin {"userinfo", "tokeninfo"}

\* the token of the request fails verification
TokenFails == ReachesTokenCheck /\ (ShortBearer \/ VerifyFailed)

\* the response to a token that verify_google_token refuses
InvalidTokenBody(endpoint) ==
    IF endpoint = "check_profile"
    THEN [success |-> FALSE, is_ambient_user |-> FALSE, email |-> <<>>,
          error |-> <<"Invalid or expired Google token. Please reconnect your calendar.">>]
    ELSE [success |-> FALSE,
          error |-> <<"Invalid or expired Google token. Please reconnect your calendar.">>,
          events |-> <<>>, match_result |-> <<>>]

\* the response to a token that is too short
TokenFormatBody(endpoint) ==
    [InvalidTokenBody(endpoint) EXCEPT !.error = <<"Invalid token format">>]

\* C9 as stated: two requests to the same endpoint whose token fails
\* verification, for whatever reason, get the same status and the same body;
\* that is, each gets the status and body of the request refused by
\* verify_google_token.
C9_AuthFailuresIdentical ==
    (gpc = "done" /\ TokenFails) =>
        resp.status = 401 /\ resp.body = InvalidTokenBody(req.endpoint)

\* C9 amended: every request whose token fails verification is answered 401
\* with the same envelope; all failures inside verify_google_token (non-200
\* of either call, missing subject, audience mismatch, timeout, exception)
\* get one and the same body, and a token shorter than 20 characters gets a
\* body that differs from it in the error message ('Invalid token format').
C9_VerifyFailuresIdentical ==
    (gpc = "done" /\ TokenFails) =>
        /\ resp.status = 401
        /\ resp.body = IF ShortBearer THEN TokenFormatBody(req.endpoint)
                       ELSE InvalidTokenBody(req.endpoint)

\* an audience mismatch, answered like every other refusal
C9_Witness ==
    /\ gpc = "done" /\ TokenFails /\ Len(net) = 2
    /\ net[2][3] = "another-app"
    /\ resp.body = InvalidTokenBody(req.endpoint)

\* C10: a response carries the four CORS headers, Access-Control-Allow-Origin
\* echoing the origin, iff the Origin header of the request is exactly one of
\* the four allowed origins; otherwise it carries none of them. This holds for
\* every endpoint and every outcome.
CorsHeaderNames == {"Access-Control-Allow-Origin", "Access-Control-Allow-Methods",
                    "Access-Control-Allow-Headers", "Access-Control-Expose-Headers"}

C10_CorsHeadersIffAllowedOrigin ==
    gpc = "done" =>
        IF req.origin \in {"chrome-extension://lmmjfddkgnehcnhelddgmlmookgemeop",
                           "https://messages.google.com",
                           "https://www.messenger.com",
                           "https://web.whatsapp.com"}
        THEN /\ <<"Access-Control-Allow-Origin", req.origin>> \in resp.headers
             /\ <<"Access-Control-Allow-Methods", "GET, POST, OPTIONS">> \in resp.headers
             /\ <<"Access-Control-Allow-Headers", "Content-Type, Authorization">> \in resp.headers
             /\ \A n \in CorsHeaderNames : HasHeader(resp, n)
        ELSE \A n \in CorsHeaderNames : ~HasHeader(resp, n)

\* C11: an OPTIONS request to any endpoint, whatever Authorization header and
\* body it carries, is answered with an empty 200 response; no outbound call
\* (token verifier, profile lookup, upstream) is made for it, check_rate_limit
\* is not entered and every rate-limit record is left as it was.
C11_OptionsBypassesEverything ==
    [][req'.method = "OPTIONS" =>
          /\ net' = <<>>
          /\ pc' = pc /\ \A w \in Workers : pc[w] = "idle"
          /\ cache' = cache /\ hist' = hist /\ result' = result
          /\ gpc' \in {"cors_exempt", "done"}
          /\ gpc' = "done" => resp'.status = 200 /\ resp'.body = [raw |-> ""]]_vars

\* a preflight with a valid-looking token and a valid body, answered while the
\* subject's quota is used up
C11_Witness ==
    /\ gpc = "done" /\ req.method = "OPTIONS" /\ req.endpoint = "find_matches"
    /\ req.auth = [scheme |-> "Bearer", token_len |-> 20] /\ req.body.valid
    /\ resp.status = 200 /\ net = <<>>
    /\ Count(cache, "u2", now) = 10

(***************************************************************************)
(* Properties of call_gemini_with_retry                                    *)
(***************************************************************************)
\* the attempts made for the request, in order, each with its answer
GeminiCalls == SelectSeq(net, LAMBDA e : e[1] = "gemini")

\* call_gemini_with_retry has returned or raised
GeminiDone == gpc \notin {"idle", "gemini"} /\ Len(GeminiCalls) > 0

\* the attempt raised an error whose message has a transient signature
RaisedTransient(e) ==
    /\ e[2] = "raised"
    /\ \E i \in 1..Len(e[3]) : e[3][i] \in {"500", "503", "UNAVAILABLE", "INTERNAL"}

\* the attempt returned a text holding one of the in-band error strings
ReturnedInBand(e) ==
    /\ e[2] = "returned"
    /\ \E i \in 1..Len(e[3]) :
          e[3][i] \in {"Error processing request: 500 INTERNAL.", "503 UNAVAILABLE."}

FailedTransiently(e) == RaisedTransient(e) \/ ReturnedInBand(e)

AllFailedTransiently == \A i \in 1..Len(GeminiCalls) : FailedTransiently(GeminiCalls[i])

\* the sequence 1, 2, ..., k
UpTo(k) == [i \in 1..k |-> i]

RECURSIVE SumSeq(_)
SumSeq(q) == IF q = <<>> THEN 0 ELSE Head(q) + SumSeq(Tail(q))

\* C12: with max_retries = 3 the call sleeps only between attempts: i+1
\* seconds after the transient failure of attempt i when another attempt
\* follows; there is no sleep after the final attempt and the sleeps of one
\* call add up to 1 + 2 = 3 seconds at most.
C12_SleepOnlyBetweenAttempts ==
    GeminiDone =>
        /\ loc.slept = UpTo(Len(GeminiCalls) - 1)
        /\ SumSeq(loc.slept) <= 3

\* C13: when every attempt fails transiently, in either class or any mix of
\* the two, the upstream is invoked exactly 3 times and the call then raises
\* an exhaustion error; while fewer than 3 attempts have failed the loop goes
\* on.
C13_ExhaustsAfterMaxAttempts ==
    /\ gpc = "gemini" => AllFailedTransiently /\ Len(GeminiCalls) < 3
    /\ (GeminiDone /\ AllFailedTransiently) =>
          /\ Len(GeminiCalls) = 3
          /\ loc.gemini.raised
          /\ loc.gemini.value[1] \in {"Gemini API error after ",
                                      "Gemini API error: max retries exceeded"}

\* in-band error, raised error, in-band error
C13_Witness ==
    /\ GeminiDone /\ Len(GeminiCalls) = 3 /\ loc.gemini.raised
    /\ ReturnedInBand(GeminiCalls[1]) /\ RaisedTransient(GeminiCalls[2])
    /\ ReturnedInBand(GeminiCalls[3])

\* C14: the error raised after 3 transient failures carries the message of
\* the last failure: the message of the last exception, or the last in-band
\* error text.
C14_ExhaustionCarriesLastMessage ==
    (GeminiDone /\ AllFailedTransiently) =>
        LET last == GeminiCalls[Len(GeminiCalls)][3]
        IN  /\ loc.gemini.raised
            /\ \A i \in 1..Len(last) : Contains(loc.gemini.value, last[i])

\* C15: an attempt, at any index, that raises an error without a transient
\* signature ends the call: the error itself is raised to the caller, no sleep
\* is made for that attempt and no further attempt follows.
C15_NonTransientPropagatesAtOnce ==
    \A k \in 1..Len(GeminiCalls) :
        (GeminiCalls[k][2] = "raised" /\ ~RaisedTransient(GeminiCalls[k])) =>
            /\ k = Len(GeminiCalls)
            /\ gpc # "gemini"
            /\ loc.gemini = [raised |-> TRUE, value |-> GeminiCalls[k][3]]
            /\ loc.slept = UpTo(k - 1)

\* a non-transient error at the third attempt
C15_Witness ==
    /\ GeminiDone /\ Len(GeminiCalls) = 3
    /\ GeminiCalls[3] = <<"gemini", "raised", <<"400", "INVALID_ARGUMENT">>>>
    /\ loc.slept = <<1, 2>>

\* C16: the call returns a text T only if T is the text of an attempt that
\* raised no error and T holds neither in-band error string; when attempts
\* 1..k-1 fail transiently and attempt k succeeds, the call returns attempt
\* k's text after sleeping 1, 2, ..., k-1 seconds and no failure is surfaced.
C16_ReturnsTextOfSuccessfulAttempt ==
    GeminiDone =>
        LET k == Len(GeminiCalls)
            last == GeminiCalls[k]
        IN  /\ ~loc.gemini.raised <=> (last[2] = "returned" /\ ~ReturnedInBand(last))
            /\ ~loc.gemini.raised =>
                  /\ loc.gemini.value = last[3]
                  /\ \A i \in 1..(k - 1) : FailedTransiently(GeminiCalls[i])
                  /\ loc.slept = UpTo(k - 1)

\* fail, fail, succeed: the success text after 1 s + 2 s of sleep
C16_Witness ==
    /\ GeminiDone /\ Len(GeminiCalls) = 3 /\ ~loc.gemini.raised
    /\ RaisedTransient(GeminiCalls[1]) /\ ReturnedInBand(GeminiCalls[2])
    /\ loc.gemini.value = <<"[{\"summary\": \"x\"}]">>
    /\ loc.slept = <<1, 2>> /\ SumSeq(loc.slept) = 3

(***************************************************************************)
(* Properties of the business endpoints                                    *)
(***************************************************************************)
Business(r) == r.endpoint \in {"extract_event", "find_matches"}

\* the body is not JSON or fails validation
BadBody(r) == ~r.body.json \/ ~r.body.valid

\* the Authorization header is missing, of another scheme, or its token is
\* too short, or verify_google_token has refused the token
TokenRefused == req.auth.scheme # "Bearer" \/ req.auth.token_len < 20 \/ VerifyFailed

\* C17 as stated: a POST to extract_event or find_matches whose body is
\* unparsable or schema-invalid is answered 400 whether its token is missing,
\* malformed, invalid or valid (parsing and validation decided before token
\* verification and rate limiting).
C17_BadBodyAnswered400 ==
    (gpc = "done" /\ Business(req) /\ req.method = "POST" /\ BadBody(req)) =>
        resp.status = 400

\* C17 amended: token verification and rate limiting are decided before
\* parsing and schema validation: a POST with an unparsable or schema-invalid
\* body is answered 401 when its token is missing, malformed or invalid, 429
\* when the rate limiter rejects it, and 400 only when the token is verified
\* and the request admitted.
C17_AuthDecidedBeforeBody ==
    (gpc = "done" /\ Business(req) /\ req.method = "POST" /\ BadBody(req)) =>
        /\ resp.status = IF TokenRefused THEN 401
                         ELSE IF ~result.allowed THEN 429
                         ELSE 400
        /\ resp.status = 400 =>
              /\ loc.userinfo.ok /\ result.allowed
              /\ resp.body.error[1] = IF ~req.body.json THEN "Invalid JSON: "
                                      ELSE "<validation error>"

C17_Witness ==
    /\ gpc = "done" /\ req.endpoint = "extract_event" /\ req.method = "POST"
    /\ ~req.body.json /\ loc.userinfo.ok /\ result.allowed
    /\ resp.status = 400

\* C18 as stated: a request to a business endpoint that is rejected at the
\* method check (method other than POST / OPTIONS), at body parsing, at schema
\* validation or at token verification leaves every rate-limit record
\* unchanged in every step of its handling.
C18_RejectedLeavesCountersUnchanged ==
    [][(/\ Business(req') /\ req'.method # "OPTIONS"
        /\ \/ req'.method # "POST"
           \/ BadBody(req')
           \/ ~loc'.userinfo.ok)
       => cache' = cache]_vars

\* C18 amended: a request rejected at token verification (401) leaves every
\* rate-limit record unchanged; the rate limiter runs before the method
\* check, body parsing and schema validation, so every non-OPTIONS request
\* that reaches them (also one then rejected with 405 or 400) has been
\* admitted and counted: with requests handled one at a time, the stored
\* count of its subject is limit - remaining of the values the rate limiter
\* returned for it.
C18_OnlyTokenRejectionIsFree ==
    [][/\ (Business(req') /\ ~loc'.userinfo.ok) => cache' = cache
       /\ (/\ Business(req') /\ req'.method # "OPTIONS"
           /\ gpc' \in {"require_http_methods", "extract_event", "find_matches"})
          => /\ loc'.userinfo.ok
             /\ result'.allowed /\ result'.user_id = loc'.userinfo.sub
             /\ Count(cache', loc'.userinfo.sub, now') = result'.limit - result'.remaining
             /\ Count(cache', loc'.userinfo.sub, now') >= 1]_vars

\* a GET answered 405 that has taken the first unit of the subject's quota
C18_Witness ==
    /\ gpc = "done" /\ req.endpoint = "extract_event" /\ req.method = "GET"
    /\ resp.status = 405 /\ loc.userinfo.ok
    /\ Count(cache, "u2", now) = 1 /\ hist["u2"].calls = 1

\* C19: a find_matches request that is authorized, admitted by the rate
\* limiter, schema-valid and has calendar_events = [] makes no upstream call
\* and is answered 200 with match_type no_match and a null matched event, the
\* same for every such request.
C19_NoCandidatesNoUpstreamCall ==
    (/\ req.endpoint = "find_matches" /\ req.method = "POST"
     /\ loc.userinfo.ok /\ result.allowed
     /\ gpc \notin {"tokeninfo", "verified", "check_rate_limit"}
     /\ req.body.json /\ req.body.valid /\ req.body.calendar_events = 0)
    => /\ ~Called("gemini")
       /\ gpc = "done" =>
             /\ resp.status = 200
             /\ resp.body.success
             /\ resp.body.error = <<>>
             /\ resp.body.match_result = <<[match_type |-> "no_match",
                                            matched_event |-> "None",
                                            matched_event_id |-> "None"]>>

\* answered without an API key configured
C19_Witness ==
    /\ gpc = "done" /\ req.endpoint = "find_matches" /\ req.method = "POST"
    /\ loc.userinfo.ok /\ result.allowed
    /\ req.body.valid /\ req.body.calendar_events = 0
    /\ resp.status = 200 /\ api_key = "None"

\* C20: every response to a non-OPTIONS request to a business endpoint whose
\* token verification succeeded carries X-RateLimit-Remaining,
\* X-RateLimit-Limit and X-Ambient-User: a 429 carries remaining 0, and any
\* other response (200, 400, 405, 500) carries the remaining and limit that
\* check_rate_limit returned for the request.
C20_RateHeadersOnEveryOutcome ==
    (gpc = "done" /\ Business(req) /\ loc.userinfo.ok) =>
        /\ <<"X-RateLimit-Remaining", ToString(result.remaining)>> \in resp.headers
        /\ <<"X-RateLimit-Limit", ToString(result.limit)>> \in resp.headers
        /\ \E v \in {"true", "false"} : <<"X-Ambient-User", v>> \in resp.headers
        /\ result.limit \in {5, 10}
        /\ resp.status = 429 <=> ~result.allowed
        /\ resp.status = 429 => <<"X-RateLimit-Remaining", "0">> \in resp.headers

\* a 500 after an upstream failure, with the values of the rate limiter
C20_Witness ==
    /\ gpc = "done" /\ resp.status = 500 /\ loc.gemini.raised
    /\ <<"X-RateLimit-Remaining", "7">> \in resp.headers
    /\ <<"X-RateLimit-Limit", "10">> \in resp.headers
    /\ <<"X-Ambient-User", "true">> \in resp.headers

(***************************************************************************)
(* Properties of the responses                                             *)
(***************************************************************************)
\* the data field of an endpoint's responses
DataField(endpoint) ==
    IF endpoint = "extract_event" THEN "events"
    ELSE IF endpoint = "find_matches" THEN "match_result"
    ELSE "email"

\* success = false, the data field present and null, a non-null error
ErrorEnvelope(body, endpoint) ==
    /\ {"success", "error", DataField(endpoint)} \subseteq DOMAIN body
    /\ body.success = FALSE
    /\ body[DataField(endpoint)] = <<>>
    /\ body.error # <<>>

\* C21 as stated: every error response of every endpoint (400, 401, 405,
\* 429, 500) has success = false, the endpoint's data field present with a
\* null value and a non-null error string.
C21_EveryErrorHasEnvelope ==
    (gpc = "done" /\ resp.status \in {400, 401, 405, 429, 500}) =>
        ErrorEnvelope(resp.body, req.endpoint)

\* C21 amended: every error response built by the handlers (400, 401, 429,
\* and the 500 of extract_event and find_matches) has success = false, the
\* endpoint's data field present with a null value and a non-null error
\* string; a 405 method rejection has an empty body and an Allow header, and
\* the 500 of check_profile (an e-mail with an empty local part) is the
\* framework's error page: neither has the envelope.
C21_HandlerErrorsHaveEnvelope ==
    gpc = "done" =>
        /\ (\/ resp.status \in {400, 401, 429}
            \/ resp.status = 500 /\ Business(req))
           => ErrorEnvelope(resp.body, req.endpoint)
        /\ resp.status = 405 =>
              /\ resp.body = [raw |-> ""]
              /\ \E h \in resp.headers : h[1] = "Allow"
        /\ (resp.status = 500 /\ ~Business(req)) =>
              /\ req.endpoint = "check_profile"
              /\ "success" \notin DOMAIN resp.body

\* a 500 of find_matches after the upstream call failed
C21_Witness ==
    /\ gpc = "done" /\ req.endpoint = "find_matches" /\ resp.status = 500
    /\ loc.gemini.raised
    /\ resp.body.match_result = <<>> /\ resp.body.error # <<>>

\* the upstream API credential is not configured (None or empty)
NoCredential == api_key \in {"None", ""}

\* the request has passed token verification, the rate limiter and validation
PassedAllChecks ==
    /\ Business(req) /\ req.method = "POST"
    /\ loc.userinfo.ok /\ result.allowed
    /\ gpc \notin {"tokeninfo", "verified", "check_rate_limit"}
    /\ req.body.json /\ req.body.valid

\* C22 as stated: without a configured credential every extract_event or
\* find_matches request that passes validation, token verification and rate
\* limiting is answered with a 500 configuration error, and the upstream call
\* is never attempted.
C22_NoCredentialGives500 ==
    (NoCredential /\ PassedAllChecks) =>
        /\ ~Called("gemini")
        /\ gpc = "done" =>
              /\ resp.status = 500
              /\ resp.body.error = <<"DEFAULT_API_KEY not configured in settings">>

\* C22 amended: without a configured credential the upstream call is never
\* attempted, and every extract_event or find_matches request that passes
\* validation, token verification and rate limiting is answered with a 500
\* configuration error, except a find_matches request with calendar_events =
\* [], which is answered 200 no_match before the credential is read.
C22_NoCredentialNoUpstreamCall ==
    (NoCredential /\ PassedAllChecks) =>
        /\ ~Called("gemini")
        /\ gpc = "done" =>
              IF req.endpoint = "find_matches" /\ req.body.calendar_events = 0
              THEN resp.status = 200 /\ resp.body.success
              ELSE /\ resp.status = 500
                   /\ ErrorEnvelope(resp.body, req.endpoint)
                   /\ resp.body.error = <<"DEFAULT_API_KEY not configured in settings">>

\* find_matches with one calendar event and an empty credential
C22_Witness ==
    /\ gpc = "done" /\ api_key = "" /\ PassedAllChecks
    /\ req.endpoint = "find_matches" /\ req.body.calendar_events = 1
    /\ resp.status = 500

\* C23: check_profile never enters check_rate_limit: in every step of the
\* handling of a check_profile request, whatever its token, every rate-limit
\* record is left as it was, and the request is never answered 429, also for
\* a subject whose quota on the business endpoints is used up.
C23_CheckProfileBypassesRateLimiter ==
    [][req'.endpoint = "check_profile" =>
          /\ cache' = cache /\ hist' = hist /\ result' = result
          /\ pc' = pc /\ \A w \in Workers : pc[w] = "idle"
          /\ resp'.status # 429]_vars

\* a verified check_profile request answered 200 with the quota used up
C23_Witness ==
    /\ gpc = "done" /\ req.endpoint = "check_profile" /\ loc.userinfo.ok
    /\ resp.status = 200
    /\ Count(cache, "u2", now) = 10 /\ ~result.allowed

\* the e-mail of the verified identity contains '@'
VerifiedEmailWithAt ==
    /\ gpc = "done" /\ req.endpoint = "check_profile" /\ req.method = "GET"
    /\ loc.userinfo.ok
    /\ loc.userinfo.email.domain \notin {"", "None"}

\* the first 3 characters of the local part when it is longer than 3, its
\* first character otherwise, then '***@' and the domain
Masked(email) ==
    (IF Len(email.local) > 3 THEN SubSeq(email.local, 1, 3)
     ELSE SubSeq(email.local, 1, 1)) \o <<"***@", email.domain>>

\* C24: for every verified identity whose e-mail contains '@', whatever the
\* length of the local part, check_profile answers 200 with the masked e-mail
\* (ab@x.com gives a***@x.com, abcdef@x.com gives abc***@x.com).
C24_MaskedEmail ==
    VerifiedEmailWithAt =>
        /\ resp.status = 200
        /\ resp.body.email = <<Masked(loc.userinfo.email)>>

\* the request has passed token verification (both calls of
\* verify_google_token answered) and the rate limiter has admitted it
VerifiedAndAdmitted ==
    /\ Business(req) /\ req.method = "POST"
    /\ Called("userinfo") /\ Called("tokeninfo") /\ loc.userinfo.ok
    /\ result.allowed /\ result.user_id = loc.userinfo.sub
    /\ Count(cache, loc.userinfo.sub, now) >= 1

\* C25: the upstream generation call is made only for a request that has
\* passed token verification and been admitted by the rate limiter; a request
\* answered 401 or 429 has caused no upstream invocation.
C25_UpstreamOnlyAfterAuthAndAdmission ==
    /\ (gpc = "gemini" \/ Called("gemini")) => VerifiedAndAdmitted
    /\ (gpc = "done" /\ resp.status \in {401, 429}) => ~Called("gemini")

\* an admitted request served by the upstream, then answered 200
C25_Witness ==
    /\ gpc = "done" /\ Called("gemini") /\ VerifiedAndAdmitted
    /\ resp.status = 200 /\ req.endpoint = "extract_event"

\* C26: for every stored count and every tier, also when the tier of a
\* subject changes inside a window, check_rate_limit returns remaining in
\* 0..limit-1 when it admits and remaining = 0 when it rejects; a subject
\* whose count is at or over 5 is rejected under the default tier with
\* remaining 0 and its record unchanged, whatever tier the count was reached
\* under.
C26_RemainingNeverNegative ==
    [][\A w \in Workers :
          /\ (pc[w] = "read" /\ pc'[w] # "read") =>
                LET u == args[w].user_id
                    lim == IF args[w].is_ambient_user THEN 10 ELSE 5
                    cur == Count(cache, u, now)
                IN  IF cur >= lim
                    THEN /\ result' = [user_id |-> u, allowed |-> FALSE,
                                       remaining |-> 0, limit |-> lim]
                         /\ cache' = cache
                    ELSE pc'[w] = "write" /\ cache' = cache
          /\ (pc[w] = "write" /\ pc'[w] = "idle") =>
                /\ result'.allowed
                /\ result'.limit = IF args[w].is_ambient_user THEN 10 ELSE 5
                /\ result'.remaining \in 0..(result'.limit - 1)]_vars

\* a subject with count 7, reached under the elevated tier, rejected under
\* the default tier
C26_Witness ==
    /\ result = [user_id |-> "u2", allowed |-> FALSE, remaining |-> 0, limit |-> 5]
    /\ Count(cache, "u2", now) = 7

\* C27: provided every outbound call returns, raises or times out, every
\* request to any endpoint is eventually answered, once: its status does not
\* change after it is set, and the retry loop makes at most 3 upstream calls
\* for one request.
C27_EveryRequestAnswered ==
    /\ (gpc # "idle") ~> (gpc = "done")
    /\ [](Len(GeminiCalls) <= 3)
    /\ [][(resp.status # 0 /\ gpc # "done") => resp'.status = resp.status]_vars
    /\ [][gpc = "done" => gpc' = "idle" /\ resp' = [status |-> 0, body |-> [raw |-> ""], headers |-> {}]]_vars

\* a request answered after the third upstream attempt failed
C27_Witness ==
    /\ gpc = "done" /\ Len(GeminiCalls) = 3 /\ loc.gemini.raised
    /\ resp.status = 500

====
